---------------------------- MODULE Spec2Model ----------------------------
(***************************************************************************)
(* Model of the ZEKO adaptive learning engine                              *)
(* (src/backend/ai_models/adaptive_learning.py).                           *)
(*                                                                         *)
(* Numbers.  Scores and engagement levels are floats in [0,1] in the code; *)
(* here they are integers in hundredths (0.85 is 85).  Every mean is kept  *)
(* as an exact fraction [n, d] in lowest terms, so a comparison against a  *)
(* threshold is the comparison of the real numbers.                        *)
(***************************************************************************)
EXTENDS Integers, Sequences, FiniteSets, TLC

VARIABLES
    profile,    \* the UserProfile object the caller holds
    sessions,   \* the session history the caller passes to the engine
    op,         \* the operation that ran last ("none" after new input)
    result,     \* what that operation returned
    clock,      \* the caller's clock, read by datetime.now()
    before      \* the caller's copy of the profile, taken before the last call

vars == <<profile, sessions, op, result, clock, before>>

-----------------------------------------------------------------------------
(* Bounds of the model *)

\* longest session history the difficulty specification builds
MaxSessions == 6

\* longest session history the profile specification builds
MaxProfileSessions == 6

\* number of update_user_profile calls a specification makes
MaxUpdates == 2

\* longest session history the engine specification builds
MaxHistory == 3

\* longest session history the word-list specification builds
MaxWordSessions == 11

\* largest count select_next_words is asked for
MaxCount == 6

\* longest text the speech specification builds from its alphabet
MaxLen == 3

\* largest number of attempts of a session the analyzer specification builds
MaxAttempts == 4

\* the level specification takes every total of points up to this one
MaxPoints == 250

-----------------------------------------------------------------------------
(* Exact arithmetic for np.mean *)

Abs(x) == IF x < 0 THEN -x ELSE x

RECURSIVE Gcd(_, _)
Gcd(a, b) == IF b = 0 THEN a ELSE Gcd(b, a % b)

\* the fraction n/d (d > 0) in lowest terms
Rat(n, d) ==
    LET g == Gcd(Abs(n), d)
    IN  [n |-> n \div g, d |-> d \div g]

RInt(k) == [n |-> k, d |-> 1]

RAdd(a, b) == Rat(a.n * b.d + b.n * a.d, a.d * b.d)

RLe(a, b) == a.n * b.d <= b.n * a.d

RLt(a, b) == a.n * b.d < b.n * a.d

RECURSIVE SumSeq(_)
SumSeq(s) == IF s = <<>> THEN 0 ELSE Head(s) + SumSeq(Tail(s))

RECURSIVE RSum(_)
RSum(s) == IF s = <<>> THEN RInt(0) ELSE RAdd(Head(s), RSum(Tail(s)))

\* np.mean of a non-empty list of numbers
np_mean(s) == Rat(SumSeq(s), Len(s))

\* np.mean of a non-empty list of means
np_mean_r(s) == LET t == RSum(s) IN Rat(t.n, t.d * Len(s))

\* lst[-k:]
LastN(s, k) ==
    IF Len(s) <= k THEN s ELSE SubSeq(s, Len(s) - k + 1, Len(s))

-----------------------------------------------------------------------------
(* Data model *)

DifficultyLevel == {"very_easy", "easy", "medium", "hard", "very_hard"}

LearningStyle == {"visual", "auditory", "kinesthetic", "mixed"}

\* a float field that holds None: the request body is Dict[str, Any] and the
\* router copies "engagement" and "duration" into the session unchecked
None == -1

LearningSession(words, scores, duration, engagement) ==
    [words_practiced  |-> words,
     scores           |-> scores,
     session_duration |-> duration,
     engagement_level |-> engagement]

-----------------------------------------------------------------------------
(* Session Metrics Analyzer *)

\* mutant: the "too easy" bucket starts at 0.9 itself
difficulty_appropriateness_from_90(average_score) ==
    IF RLe(RInt(90), average_score) THEN 30
    ELSE IF RLt(RInt(70), average_score) THEN 100
    ELSE IF RLt(RInt(50), average_score) THEN 80
    ELSE IF RLt(RInt(30), average_score) THEN 50
    ELSE 20

difficulty_appropriateness(average_score) ==
    IF RLt(RInt(90), average_score) THEN 30
    ELSE IF RLt(RInt(70), average_score) THEN 100
    ELSE IF RLt(RInt(50), average_score) THEN 80
    ELSE IF RLt(RInt(30), average_score) THEN 50
    ELSE 20

\* the number (a + b * sqrt(q)) / d, with d > 0 and q >= 0: np.std is a
\* square root, kept exact
Surd(a, b, q, d) == [a |-> a, b |-> b, q |-> q, d |-> d]

SurdInt(k) == Surd(k, 0, 0, 1)

\* x <= c, for an integer c
SurdLe(x, c) ==
    LET t == c * x.d - x.a
    IN  IF x.b = 0 \/ x.q = 0 THEN 0 <= t
        ELSE IF x.b > 0 THEN t >= 0 /\ x.b * x.b * x.q <= t * t
        ELSE t >= 0 \/ x.b * x.b * x.q >= t * t

\* x >= c, for an integer c
SurdGe(x, c) == SurdLe(Surd(-x.a, -x.b, x.q, x.d), -c)

\* np.std(scores), the population standard deviation:
\* sqrt(n * sum(x^2) - sum(x)^2) / n
np_std(scores) ==
    LET n == Len(scores)
        squares == [i \in 1..n |-> scores[i] * scores[i]]
    IN  Surd(0, 1, n * SumSeq(squares) - SumSeq(scores) * SumSeq(scores), n)

\* np.std(scores) if len(scores) > 1 else 0
score_std(scores) == IF Len(scores) > 1 THEN np_std(scores) ELSE SurdInt(0)

\* mutant: 1 - score_std without the floor
consistency_without_floor(std) ==
    Surd(100 * std.d - std.a, -std.b, std.q, std.d)

\* max(0, 1 - score_std)
consistency(std) ==
    LET v == Surd(100 * std.d - std.a, -std.b, std.q, std.d)
    IN  IF ~SurdLe(v, 0) THEN v ELSE SurdInt(0)

\* np.polyfit(np.arange(len(scores)), scores, 1)[0]: the slope of the
\* least-squares line, (n*sum(xy) - sum(x)*sum(y)) / (n*sum(x^2) - sum(x)^2)
trend_coef(scores) ==
    LET n == Len(scores)
        x == [i \in 1..n |-> i - 1]
        xy == [i \in 1..n |-> x[i] * scores[i]]
        xx == [i \in 1..n |-> x[i] * x[i]]
    IN  Rat(n * SumSeq(xy) - SumSeq(x) * SumSeq(scores),
            n * SumSeq(xx) - SumSeq(x) * SumSeq(x))

\* max(-1, min(1, trend_coef * 10)) for more than one score, 0.0 for one
improvement_trend(scores) ==
    IF Len(scores) > 1
    THEN LET coef == trend_coef(scores)
             scaled == Rat(10 * coef.n, coef.d)
             capped == IF RLt(scaled, RInt(100)) THEN scaled ELSE RInt(100)
         IN  IF RLt(RInt(-100), capped) THEN capped ELSE RInt(-100)
    ELSE RInt(0)

\* mutant: a session without scores is put in the bucket of the average 0.0
no_scores_metrics_bucketed ==
    [average_score |-> RInt(0),
     consistency |-> SurdInt(0),
     improvement_trend |-> RInt(0),
     difficulty_appropriateness |-> difficulty_appropriateness(RInt(0))]

\* the dictionary of the early return for a session without scores: it has
\* no 'engagement_level' key
no_scores_metrics ==
    [average_score |-> RInt(0),
     consistency |-> SurdInt(0),
     improvement_trend |-> RInt(0),
     difficulty_appropriateness |-> 50]

\* The dictionary returned for a session.
analyze_session_performance(session) ==
    IF session.scores = <<>>
    THEN no_scores_metrics
    ELSE [average_score |-> np_mean(session.scores),
          consistency |-> consistency(score_std(session.scores)),
          improvement_trend |-> improvement_trend(session.scores),
          difficulty_appropriateness |->
              difficulty_appropriateness(np_mean(session.scores)),
          engagement_level |-> session.engagement_level]

-----------------------------------------------------------------------------
(* Difficulty State Machine: the decision *)

\* the analyzer's dictionaries for sessions[-5:]
performance_metrics(ss) ==
    LET recent_sessions == LastN(ss, 5)
    IN  [i \in 1..Len(recent_sessions) |->
            analyze_session_performance(recent_sessions[i])]

avg_score(pm) ==
    np_mean_r([i \in 1..Len(pm) |-> pm[i].average_score])

avg_difficulty_appropriateness(pm) ==
    np_mean([i \in 1..Len(pm) |-> pm[i].difficulty_appropriateness])

\* m['engagement_level'] raises KeyError on the dictionary of a session
\* without scores, and np.mean raises TypeError on a None among the floats
engagement_raises(pm) ==
    \E i \in 1..Len(pm) :
        \/ "engagement_level" \notin DOMAIN pm[i]
        \/ pm[i].engagement_level = None

avg_engagement(pm) ==
    np_mean([i \in 1..Len(pm) |-> pm[i].engagement_level])

\* mutant: the score threshold of the increase rule is strict
increase_rule_strict_score(pm) ==
    /\ RLt(RInt(85), avg_score(pm))
    /\ RLe(RInt(70), avg_engagement(pm))
    /\ RLt(avg_difficulty_appropriateness(pm), RInt(50))

increase_rule(pm) ==
    /\ RLe(RInt(85), avg_score(pm))
    /\ RLe(RInt(70), avg_engagement(pm))
    /\ RLt(avg_difficulty_appropriateness(pm), RInt(50))

decrease_rule(pm) ==
    \/ RLe(avg_score(pm), RInt(40))
    \/ RLe(avg_engagement(pm), RInt(30))

\* mutant: the final else answers "decrease"
decision_logic_else_decrease(pm) ==
    IF engagement_raises(pm) THEN "maintain"
    ELSE IF increase_rule(pm) THEN "increase"
    ELSE IF decrease_rule(pm) THEN "decrease"
    ELSE IF /\ RLe(RInt(60), avg_score(pm))
            /\ RLe(avg_score(pm), RInt(80))
            /\ RLe(RInt(60), avg_engagement(pm)) THEN "maintain"
    ELSE "decrease"

\* the decision over the analyzer's dictionaries (the body of the try block
\* after the loop); an exception there is caught and answers "maintain"
decision_logic(pm) ==
    IF engagement_raises(pm) THEN "maintain"
    ELSE IF increase_rule(pm) THEN "increase"
    ELSE IF decrease_rule(pm) THEN "decrease"
    ELSE IF /\ RLe(RInt(60), avg_score(pm))
            /\ RLe(avg_score(pm), RInt(80))
            /\ RLe(RInt(60), avg_engagement(pm)) THEN "maintain"
    ELSE "maintain"

\* mutant: the decision stays within the ladder, "maintain" replacing an
\* "increase" at the top level and a "decrease" at the bottom level
determine_difficulty_adjustment_within_ladder(ss, current_difficulty) ==
    LET decision == IF ss = <<>> THEN "maintain"
                    ELSE decision_logic(performance_metrics(ss))
    IN  IF decision = "increase" /\ current_difficulty = "very_hard"
        THEN "maintain"
        ELSE IF decision = "decrease" /\ current_difficulty = "very_easy"
        THEN "maintain"
        ELSE decision

\* current_difficulty is a parameter the body never reads
determine_difficulty_adjustment(ss, current_difficulty) ==
    IF ss = <<>> THEN "maintain"
    ELSE decision_logic(performance_metrics(ss))

-----------------------------------------------------------------------------
(* The default profile of a new user *)

create_default_user_profile(age) ==
    [age            |-> age,
     current_level  |-> IF age <= 5 THEN "very_easy"
                        ELSE IF age <= 9 THEN "easy" ELSE "medium",
     learning_style |-> "mixed",
     attention_span |-> IF age <= 5 THEN RInt(5)
                        ELSE IF age <= 7 THEN RInt(10)
                        ELSE IF age <= 9 THEN RInt(15) ELSE RInt(20),
     strengths      |-> <<>>,
     weaknesses     |-> <<>>,
     last_updated   |-> 0]

-----------------------------------------------------------------------------
(* Profile Aggregator *)

\* zip(session.words_practiced, session.scores)
zip_words_scores(session) ==
    LET n == IF Len(session.words_practiced) <= Len(session.scores)
             THEN Len(session.words_practiced) ELSE Len(session.scores)
    IN  [i \in 1..n |-> <<session.words_practiced[i], session.scores[i]>>]

\* the (word, score) pairs of the sessions in the order the loop meets them
RECURSIVE word_score_pairs(_)
word_score_pairs(ss) ==
    IF ss = <<>> THEN <<>>
    ELSE zip_words_scores(Head(ss)) \o word_score_pairs(Tail(ss))

\* the keys of word_performance in insertion order
word_keys(pairs) ==
    LET IsNew(i) == \A j \in 1..(i - 1) : pairs[j][1] # pairs[i][1]
        first == SelectSeq([i \in 1..Len(pairs) |-> i], IsNew)
    IN  [k \in 1..Len(first) |-> pairs[first[k]][1]]

\* word_performance[word]
word_performance(pairs, word) ==
    LET Of(pr) == pr[1] = word
        mine == SelectSeq(pairs, Of)
    IN  [i \in 1..Len(mine) |-> mine[i][2]]

\* the list `strengths` built by the loop over word_performance
new_strengths(ss) ==
    LET pairs == word_score_pairs(LastN(ss, 10))
        Strong(w) == RLe(RInt(80), np_mean(word_performance(pairs, w)))
    IN  SelectSeq(word_keys(pairs), Strong)

\* the list `weaknesses` built by the loop over word_performance
new_weaknesses(ss) ==
    LET pairs == word_score_pairs(LastN(ss, 10))
        Weak(w) == LET avg_score_of_word == np_mean(word_performance(pairs, w))
                   IN  /\ ~RLe(RInt(80), avg_score_of_word)
                       /\ RLe(avg_score_of_word, RInt(50))
    IN  SelectSeq(word_keys(pairs), Weak)

\* mutant: the new weak words are added to the stored list
weaknesses_assigned_keeping_old(p, ss) == LastN(p.weaknesses \o new_weaknesses(ss), 20)

\* profile.weaknesses = weaknesses[-20:]
weaknesses_assigned(p, ss) == LastN(new_weaknesses(ss), 20)

\* mutant: on overflow the first 20 entries are kept
strengths_assigned_keeping_first(p, ss) ==
    SubSeq(new_strengths(ss), 1,
           IF Len(new_strengths(ss)) < 20 THEN Len(new_strengths(ss)) ELSE 20)

\* profile.strengths = strengths[-20:]
strengths_assigned(p, ss) == LastN(new_strengths(ss), 20)

\* np.mean(recent_durations) raises TypeError on a None among the floats
durations_raise(ss) ==
    \E i \in 1..Len(LastN(ss, 10)) : LastN(ss, 10)[i].session_duration = None

recent_durations(ss) ==
    [i \in 1..Len(LastN(ss, 10)) |-> LastN(ss, 10)[i].session_duration]

\* np.mean([s.engagement_level for s in sessions[-5:]]) raises on a None
style_engagement_raises(ss) ==
    \E i \in 1..Len(LastN(ss, 5)) : LastN(ss, 5)[i].engagement_level = None

style_avg_engagement(ss) ==
    np_mean([i \in 1..Len(LastN(ss, 5)) |-> LastN(ss, 5)[i].engagement_level])

\* mutant: high engagement puts a specific style back
learning_style_assigned_reverting(p, ss) ==
    IF RLt(RInt(80), style_avg_engagement(ss)) THEN "visual"
    ELSE "mixed"

\* mutant: a mean engagement of exactly 0.8 keeps the style
learning_style_assigned_keep_at_80(p, ss) ==
    IF RLe(RInt(80), style_avg_engagement(ss)) THEN p.learning_style
    ELSE "mixed"

\* the learning-style heuristic
learning_style_assigned(p, ss) ==
    IF RLt(RInt(80), style_avg_engagement(ss)) THEN p.learning_style
    ELSE IF p.learning_style # "mixed" THEN "mixed"
    ELSE p.learning_style

\* The call mutates the caller's profile object in place and returns it; an
\* exception leaves the assignments made before it.  `raised` tells whether
\* the except branch ran.
update_user_profile(p, ss, now) ==
    IF ss = <<>> THEN [profile |-> p, raised |-> FALSE]
    ELSE IF durations_raise(ss) THEN [profile |-> p, raised |-> TRUE]
    ELSE LET p1 == [p EXCEPT !.attention_span = np_mean(recent_durations(ss))]
             p2 == [p1 EXCEPT !.strengths = strengths_assigned(p1, ss),
                              !.weaknesses = weaknesses_assigned(p1, ss)]
         IN  IF style_engagement_raises(ss)
             THEN [profile |-> p2, raised |-> TRUE]
             ELSE [profile |-> [p2 EXCEPT
                                   !.learning_style = learning_style_assigned(p2, ss),
                                   !.last_updated = now],
                   raised |-> FALSE]

-----------------------------------------------------------------------------
(* Difficulty State Machine: the ladder *)

difficulty_progression(level) ==
    CASE level = "very_easy" -> "easy"
      [] level = "easy"      -> "medium"
      [] level = "medium"    -> "hard"
      [] level = "hard"      -> "very_hard"
      [] level = "very_hard" -> "very_hard"

difficulty_regression(level) ==
    CASE level = "very_hard" -> "hard"
      [] level = "hard"      -> "medium"
      [] level = "medium"    -> "easy"
      [] level = "easy"      -> "very_easy"
      [] level = "very_easy" -> "very_easy"

\* mutant: "maintain" is treated like "decrease"
apply_difficulty_adjustment_maintain_regresses(difficulty_adjustment, current_level) ==
    IF difficulty_adjustment = "increase" THEN difficulty_progression(current_level)
    ELSE difficulty_regression(current_level)

\* mutant: the ladder wraps around at both ends
apply_difficulty_adjustment_wrapping(difficulty_adjustment, current_level) ==
    IF difficulty_adjustment = "increase"
    THEN IF current_level = "very_hard" THEN "very_easy"
         ELSE difficulty_progression(current_level)
    ELSE IF difficulty_adjustment = "decrease"
    THEN IF current_level = "very_easy" THEN "very_hard"
         ELSE difficulty_regression(current_level)
    ELSE current_level

\* new_difficulty: the level the words are selected at
apply_difficulty_adjustment(difficulty_adjustment, current_level) ==
    IF difficulty_adjustment = "increase" THEN difficulty_progression(current_level)
    ELSE IF difficulty_adjustment = "decrease" THEN difficulty_regression(current_level)
    ELSE current_level

-----------------------------------------------------------------------------
(* Curriculum Sampler *)

\* a list field of the profile that holds None (a stored null): one sentinel
\* entry, since a list of words cannot be compared with a number here
NoneList == <<"<None>">>

\* all_words of a level: the table of the source, cut to four words per
\* level; as in the source, "kreativitas" is in the table of MEDIUM and in
\* the table of HARD, and no other word is in two tables
word_categories(difficulty) ==
    CASE difficulty = "very_easy" -> <<"mama", "papa", "bola", "air">>
      [] difficulty = "easy"      -> <<"keluarga", "orangtua", "sekolah", "guru">>
      [] difficulty = "medium"    -> <<"senang", "sedih", "besar", "kreativitas">>
      [] difficulty = "hard"      -> <<"pembelajaran", "pengetahuan",
                                       "komunikasi", "kreativitas">>
      [] difficulty = "very_hard" -> <<"metamorfosis", "fotosintesis",
                                       "empati", "toleransi">>

fallback_words == <<"mama", "papa", "air", "makan", "tidur">>

IsIn(w, list) == \E i \in 1..Len(list) : list[i] = w

\* lst[:count], also for a negative count
PySlice(list, count) ==
    IF count >= 0
    THEN SubSeq(list, 1, IF count <= Len(list) THEN count ELSE Len(list))
    ELSE SubSeq(list, 1, IF Len(list) + count >= 0 THEN Len(list) + count ELSE 0)

\* np.random.choice(a, size, replace=False): every arrangement of `size`
\* distinct positions of a
np_random_choice(a, size) ==
    { [i \in 1..size |-> a[f[i]]] :
        f \in { g \in [1..size -> 1..Len(a)] :
                    \A i, j \in 1..size : i # j => g[i] # g[j] } }

\* np.random.choice raises ValueError for a negative size and for a size
\* above the population
np_random_choice_raises(a, size) == size < 0 \/ size > Len(a)

\* the lists the call can return once the review words are chosen
fill_remaining(all_words, candidate_words, selected_words, count) ==
    LET remaining_count == count - Len(selected_words)
        NotSelected(w) == ~IsIn(w, selected_words)
        new_words == SelectSeq(candidate_words, NotSelected)
    IN  IF Len(new_words) >= remaining_count
        THEN IF np_random_choice_raises(new_words, remaining_count)
             THEN {PySlice(fallback_words, count)}
             ELSE { PySlice(selected_words \o c, count) :
                      c \in np_random_choice(new_words, remaining_count) }
        ELSE LET selected2 == selected_words \o new_words
                 NotSelected2(w) == ~IsIn(w, selected2)
                 additional_words == SelectSeq(all_words, NotSelected2)
                 needed == count - Len(selected2)
             IN  IF Len(selected2) < count /\ additional_words # <<>>
                 THEN { PySlice(selected2 \o c, count) :
                          c \in np_random_choice(additional_words,
                                   IF needed <= Len(additional_words)
                                   THEN needed ELSE Len(additional_words)) }
                 ELSE {PySlice(selected2, count)}

\* mutant: mastered words stay in the candidate pool
select_next_words_with_mastered(p, difficulty, count) ==
    LET all_words == word_categories(difficulty)
        Candidate(w) == IsIn(w, all_words)
        priority_words == SelectSeq(p.weaknesses, Candidate)
        third == IF count \div 3 >= 1 THEN count \div 3 ELSE 1
        review_count == IF Len(priority_words) <= third
                        THEN Len(priority_words) ELSE third
        reviews == IF priority_words # <<>>
                   THEN np_random_choice(priority_words, review_count)
                   ELSE {<<>>}
    IN  UNION { fill_remaining(all_words, all_words, r, count) : r \in reviews }

\* mutant: no review words are chosen first
select_next_words_without_review(p, difficulty, count) ==
    LET all_words == word_categories(difficulty)
        NotMastered(w) == ~IsIn(w, p.strengths)
        candidate_words == SelectSeq(all_words, NotMastered)
    IN  fill_remaining(all_words, candidate_words, <<>>, count)

\* the set of lists select_next_words can return
select_next_words(p, difficulty, count) ==
    IF p.strengths = NoneList \/ p.weaknesses = NoneList
    THEN {PySlice(fallback_words, count)}
    ELSE LET all_words == IF difficulty \in DifficultyLevel
                          THEN word_categories(difficulty)
                          ELSE word_categories("easy")
             NotMastered(w) == ~IsIn(w, p.strengths)
             candidate_words == SelectSeq(all_words, NotMastered)
             Candidate(w) == IsIn(w, candidate_words)
             priority_words == SelectSeq(p.weaknesses, Candidate)
             third == IF count \div 3 >= 1 THEN count \div 3 ELSE 1
             review_count == IF Len(priority_words) <= third
                             THEN Len(priority_words) ELSE third
             reviews == IF priority_words # <<>>
                        THEN np_random_choice(priority_words, review_count)
                        ELSE {<<>>}
         IN  UNION { fill_remaining(all_words, candidate_words, r, count) :
                       r \in reviews }

-----------------------------------------------------------------------------
(* Pronunciation Scorer.  A text is the sequence of its characters; a      *)
(* similarity, a confidence and a score are in hundredths.                 *)

\* the characters matched by \s
Whitespace == {" ", "\t"}

\* characters matched by neither \w nor \s
Punctuation == {"!", "?", ".", ","}

\* str.lower()
str_lower(text) ==
    [i \in 1..Len(text) |->
        CASE text[i] = "M" -> "m"
          [] text[i] = "A" -> "a"
          [] text[i] = "P" -> "p"
          [] OTHER -> text[i]]

\* text.strip()
str_strip(text) ==
    LET inner == { i \in 1..Len(text) : text[i] \notin Whitespace }
    IN  IF inner = {} THEN <<>>
        ELSE SubSeq(text, CHOOSE i \in inner : \A j \in inner : i <= j,
                          CHOOSE i \in inner : \A j \in inner : i >= j)

normalize_text(text) ==
    LET Kept(c) == c \notin Punctuation
        unpunctuated == SelectSeq(text, Kept)
        StartsRun(i) == \/ unpunctuated[i] \notin Whitespace
                        \/ i = 1
                        \/ unpunctuated[i - 1] \notin Whitespace
        runs == SelectSeq([i \in 1..Len(unpunctuated) |-> i], StartsRun)
        collapsed == [k \in 1..Len(runs) |->
                         IF unpunctuated[runs[k]] \in Whitespace THEN " "
                         ELSE unpunctuated[runs[k]]]
    IN  str_strip(collapsed)

\* the substitution rules, in the order of the dictionary
phonetic_rules ==
    << << <<"t", "h">>, <<"t">> >>,
       << <<"f">>, <<"p">> >>,
       << <<"v">>, <<"b">> >>,
       << <<"z">>, <<"s">> >>,
       << <<"c", "h">>, <<"c">> >> >>

\* str.replace(old, new): the occurrences from the left, not overlapping
RECURSIVE str_replace(_, _, _)
str_replace(s, old, new) ==
    IF Len(s) < Len(old) THEN s
    ELSE IF SubSeq(s, 1, Len(old)) = old
    THEN new \o str_replace(SubSeq(s, Len(old) + 1, Len(s)), old, new)
    ELSE <<Head(s)>> \o str_replace(Tail(s), old, new)

RECURSIVE apply_phonetic_rules_from(_, _)
apply_phonetic_rules_from(adjusted, k) ==
    IF k > Len(phonetic_rules) THEN adjusted
    ELSE apply_phonetic_rules_from(
             str_replace(adjusted, phonetic_rules[k][1], phonetic_rules[k][2]),
             k + 1)

apply_phonetic_rules(word) == apply_phonetic_rules_from(word, 1)

\* difflib's find_longest_match without junk: <<i, j, size>> of the longest
\* block a[i..] = b[j..], the earliest in a and then the earliest in b among
\* the longest
find_longest_match(a, b) ==
    LET blocks == { m \in (1..Len(a)) \X (1..Len(b)) \X (1..Len(a)) :
                      /\ m[1] + m[3] - 1 <= Len(a)
                      /\ m[2] + m[3] - 1 <= Len(b)
                      /\ SubSeq(a, m[1], m[1] + m[3] - 1) =
                         SubSeq(b, m[2], m[2] + m[3] - 1) }
        Preferred(m, n) ==
            \/ m[3] > n[3]
            \/ m[3] = n[3] /\ m[1] < n[1]
            \/ m[3] = n[3] /\ m[1] = n[1] /\ m[2] < n[2]
    IN  IF blocks = {} THEN <<1, 1, 0>>
        ELSE CHOOSE m \in blocks : \A n \in blocks : m = n \/ Preferred(m, n)

\* the total size of difflib's matching blocks: the longest block, then the
\* same to its left and to its right
RECURSIVE matching_characters(_, _)
matching_characters(a, b) ==
    IF a = <<>> \/ b = <<>> THEN 0
    ELSE LET m == find_longest_match(a, b)
         IN  IF m[3] = 0 THEN 0
             ELSE m[3]
                  + matching_characters(SubSeq(a, 1, m[1] - 1),
                                        SubSeq(b, 1, m[2] - 1))
                  + matching_characters(SubSeq(a, m[1] + m[3], Len(a)),
                                        SubSeq(b, m[2] + m[3], Len(b)))

\* difflib.SequenceMatcher(None, a, b).ratio(): 2.0 * matches / length, and
\* 1.0 for two empty strings
SequenceMatcher_ratio(a, b) ==
    IF Len(a) + Len(b) = 0 THEN RInt(100)
    ELSE Rat(200 * matching_characters(a, b), Len(a) + Len(b))

\* mutant: the words are compared as given
calculate_word_similarity_unnormalized(spoken_word, target_word) ==
    LET similarity == SequenceMatcher_ratio(spoken_word, target_word)
        phonetic_similarity ==
            SequenceMatcher_ratio(apply_phonetic_rules(spoken_word),
                                  apply_phonetic_rules(target_word))
    IN  IF RLe(phonetic_similarity, similarity) THEN similarity
        ELSE phonetic_similarity

calculate_word_similarity(spoken_word, target_word) ==
    LET spoken == normalize_text(str_lower(spoken_word))
        target == normalize_text(str_lower(target_word))
        similarity == SequenceMatcher_ratio(spoken, target)
        phonetic_similarity ==
            SequenceMatcher_ratio(apply_phonetic_rules(spoken),
                                  apply_phonetic_rules(target))
    IN  IF RLe(phonetic_similarity, similarity) THEN similarity
        ELSE phonetic_similarity

\* mutant: the weights of similarity and confidence are exchanged
pronunciation_score_weights_exchanged(similarity, confidence) ==
    Rat(3 * similarity.n + 7 * confidence * similarity.d, 10 * similarity.d)

\* similarity * 0.7 + confidence * 0.3
pronunciation_score(similarity, confidence) ==
    Rat(7 * similarity.n + 3 * confidence * similarity.d, 10 * similarity.d)

generate_pronunciation_feedback(spoken, target, similarity, confidence) ==
    LET tier ==
            IF RLe(RInt(90), similarity)
            THEN [feedback |-> "Bagus sekali! Pengucapan sempurna!",
                  suggestions |-> <<>>]
            ELSE IF RLe(RInt(80), similarity)
            THEN [feedback |-> "Bagus! Pengucapan sudah sangat baik!",
                  suggestions |-> <<"Coba ucapkan sedikit lebih jelas lagi">>]
            ELSE IF RLe(RInt(60), similarity)
            THEN [feedback |-> "Lumayan bagus! Mari coba lagi dengan lebih pelan",
                  suggestions |-> <<"Ucapkan kata dengan lebih pelan",
                                    "Perhatikan setiap suku kata",
                                    "Coba dengarkan contoh lagi">>]
            ELSE IF RLe(RInt(40), similarity)
            THEN [feedback |-> "Belum tepat, tapi jangan menyerah! Coba lagi ya",
                  suggestions |-> <<"Dengarkan contoh pengucapan yang benar",
                                    "Pecah kata menjadi suku kata",
                                    "Latih satu suku kata dulu",
                                    "Minta bantuan kakak atau orangtua">>]
            ELSE [feedback |-> "Ayo coba lagi! Dengarkan baik-baik contohnya ya",
                  suggestions |-> <<"Dengarkan contoh berulang kali",
                                    "Tiru pengucapan persis seperti contoh",
                                    "Mulai dari kata yang lebih mudah dulu",
                                    "Istirahat sebentar lalu coba lagi">>]
    IN  IF confidence < 60
        THEN [tier EXCEPT !.suggestions =
                 @ \o <<"Coba bicara lebih keras dan jelas",
                        "Pastikan tidak ada suara bising di sekitar">>]
        ELSE tier

\* the PronunciationResult
analyze_pronunciation(spoken_word, target_word, confidence) ==
    LET similarity == calculate_word_similarity(spoken_word, target_word)
        fb == generate_pronunciation_feedback(spoken_word, target_word,
                                              similarity, confidence)
    IN  [word |-> spoken_word,
         target_word |-> target_word,
         similarity_score |-> similarity,
         phonetic_accuracy |-> pronunciation_score(similarity, confidence),
         confidence |-> confidence,
         feedback |-> fb.feedback,
         suggestions |-> fb.suggestions]

\* str.split(): the maximal runs of characters that are not whitespace
str_split(text) ==
    LET Starts(i) == /\ text[i] \notin Whitespace
                     /\ (i = 1 \/ text[i - 1] \in Whitespace)
        starts == SelectSeq([i \in 1..Len(text) |-> i], Starts)
        EndOf(i) == CHOOSE j \in i..Len(text) :
                        /\ \A k \in i..j : text[k] \notin Whitespace
                        /\ (j = Len(text) \/ text[j + 1] \in Whitespace)
    IN  [k \in 1..Len(starts) |-> SubSeq(text, starts[k], EndOf(starts[k]))]

\* the value of the 'error' key of a transcription that has none
NoError == "<no error key>"

\* the dictionary transcribe_audio returns when the recognizer has no result
no_speech_detected ==
    [transcript |-> <<>>, confidence |-> 0, words |-> <<>>,
     error |-> "No speech detected"]

\* the dictionary transcribe_audio returns for a recognizer result
transcription_of(transcript, confidence, words) ==
    [transcript |-> transcript, confidence |-> confidence, words |-> words,
     error |-> NoError]

\* f"Kata '{target_word}' belum diucapkan"
not_spoken_feedback(target_word) ==
    <<"Kata '">> \o target_word \o <<"' belum diucapkan">>

\* the PronunciationResult of a target word without a spoken word
not_spoken_result(target_word) ==
    [word |-> <<>>,
     target_word |-> target_word,
     similarity_score |-> RInt(0),
     phonetic_accuracy |-> RInt(0),
     confidence |-> 0,
     feedback |-> not_spoken_feedback(target_word),
     suggestions |-> <<"Coba ucapkan kata ini juga">>]

\* the confidence of the first word_info whose word is the spoken word,
\* the overall confidence without one
word_confidence(transcription_result, spoken_word) ==
    LET words == transcription_result.words
        found == { k \in 1..Len(words) :
                     str_lower(words[k].word) = str_lower(spoken_word) }
    IN  IF found = {} THEN transcription_result.confidence
        ELSE words[CHOOSE k \in found : \A j \in found : k <= j].confidence

generate_overall_feedback(score, spoken_count, target_count) ==
    LET tier ==
            IF RLe(RInt(90), score)
            THEN [feedback |-> "Luar biasa! Pengucapan sangat sempurna!",
                  recommendations |-> <<"Coba kata-kata yang lebih sulit">>]
            ELSE IF RLe(RInt(80), score)
            THEN [feedback |-> "Bagus sekali! Pengucapan sudah sangat baik!",
                  recommendations |-> <<"Terus berlatih dengan konsisten">>]
            ELSE IF RLe(RInt(60), score)
            THEN [feedback |-> "Lumayan bagus! Masih ada yang bisa diperbaiki",
                  recommendations |-> <<"Latih kata-kata yang masih sulit",
                                        "Dengarkan contoh lebih sering",
                                        "Berlatih 10-15 menit setiap hari">>]
            ELSE IF RLe(RInt(40), score)
            THEN [feedback |->
                      "Perlu latihan lebih banyak, tapi sudah bagus kok!",
                  recommendations |-> <<"Mulai dari kata-kata yang lebih mudah",
                                        "Berlatih dengan sabar",
                                        "Minta bantuan orangtua atau guru">>]
            ELSE [feedback |-> "Ayo semangat! Mari kita belajar pelan-pelan",
                  recommendations |-> <<"Mulai dari kata sangat mudah",
                                        "Dengarkan contoh berulang kali",
                                        "Jangan terburu-buru">>]
    IN  IF spoken_count < target_count
        THEN [tier EXCEPT !.recommendations =
                 @ \o <<"Coba ucapkan semua kata yang diminta">>]
        ELSE IF spoken_count > target_count
        THEN [tier EXCEPT !.recommendations =
                 @ \o <<"Fokus pada kata-kata yang diminta saja">>]
        ELSE tier

\* the SpeechAnalysis of a transcription that carries an error
speech_analysis_of_error ==
    [transcript |-> <<>>,
     confidence |-> 0,
     pronunciation_results |-> <<>>,
     overall_score |-> RInt(0),
     feedback |-> "Maaf, tidak bisa mendengar suara. Coba lagi ya!",
     recommendations |-> <<"Pastikan mikrofon berfungsi dengan baik",
                           "Bicara lebih keras dan jelas",
                           "Kurangi suara bising di sekitar">>]

\* the SpeechAnalysis, from the dictionary transcribe_audio returned
analyze_speech_comprehensive(transcription_result, target_words) ==
    IF transcription_result.error # NoError THEN speech_analysis_of_error
    ELSE
    LET transcript == transcription_result.transcript
        spoken_words == str_split(normalize_text(transcript))
        pronunciation_results ==
            [i \in 1..Len(target_words) |->
                IF i <= Len(spoken_words)
                THEN analyze_pronunciation(
                         spoken_words[i], target_words[i],
                         word_confidence(transcription_result,
                                         spoken_words[i]))
                ELSE not_spoken_result(target_words[i])]
        total_score ==
            RSum([i \in 1..Len(target_words) |->
                     pronunciation_results[i].phonetic_accuracy])
        overall_score ==
            IF target_words # <<>>
            THEN Rat(total_score.n, total_score.d * Len(target_words))
            ELSE RInt(0)
        overall == generate_overall_feedback(overall_score, Len(spoken_words),
                                             Len(target_words))
    IN  [transcript |-> transcript,
         confidence |-> transcription_result.confidence,
         pronunciation_results |-> pronunciation_results,
         overall_score |-> overall_score,
         feedback |-> overall.feedback,
         recommendations |-> overall.recommendations]

-----------------------------------------------------------------------------
(* Recommendation Composer *)

\* sessions[-3:] if len(sessions) >= 3 else sessions
recent_sessions(ss) == LastN(ss, 3)

\* np.mean of the recent durations raises TypeError on a None among them;
\* the exception reaches the except clause of the composer
composer_raises(ss) ==
    \E i \in 1..Len(recent_sessions(ss)) :
        recent_sessions(ss)[i].session_duration = None

avg_recent_duration(ss) ==
    IF ss = <<>> THEN RInt(0)
    ELSE np_mean([i \in 1..Len(recent_sessions(ss)) |->
                     recent_sessions(ss)[i].session_duration])

\* avg_recent_duration > attention_span * 1.5
recommended_break(p, ss) ==
    LET a == avg_recent_duration(ss)
    IN  2 * a.n * p.attention_span.d > 3 * p.attention_span.n * a.d

base_duration(age) == IF age <= 6 THEN 5 ELSE IF age <= 8 THEN 10 ELSE 15

\* mutant: the attention span is not scaled by 0.8
suggested_duration_unscaled(p) ==
    IF p.attention_span.n > 0
    THEN IF RLe(RInt(base_duration(p.age)), p.attention_span)
         THEN RInt(base_duration(p.age)) ELSE p.attention_span
    ELSE RInt(base_duration(p.age))

\* the suggested session length in minutes
suggested_duration(p) ==
    LET scaled == Rat(4 * p.attention_span.n, 5 * p.attention_span.d)
    IN  IF p.attention_span.n > 0
        THEN IF RLe(RInt(base_duration(p.age)), scaled)
             THEN RInt(base_duration(p.age)) ELSE scaled
        ELSE RInt(base_duration(p.age))

\* mutant: the tier is chosen from the mean over all the attempts of the
\* last 3 sessions
encouragement_of_recent_sessions(ss) ==
    IF ss = <<>> THEN "welcome_introduction"
    ELSE LET recent == recent_sessions(ss)
             all_scores == [i \in 1..Len(recent) |-> SumSeq(recent[i].scores)]
             all_counts == [i \in 1..Len(recent) |-> Len(recent[i].scores)]
             recent_avg == IF SumSeq(all_counts) > 0
                           THEN Rat(SumSeq(all_scores), SumSeq(all_counts))
                           ELSE RInt(0)
         IN  IF RLe(RInt(80), recent_avg) THEN "celebration"
             ELSE IF RLe(RInt(60), recent_avg) THEN "positive_reinforcement"
             ELSE IF RLe(RInt(40), recent_avg) THEN "gentle_motivation"
             ELSE "supportive_comfort"

encouragement(ss) ==
    IF ss = <<>> THEN "welcome_introduction"
    ELSE LET last_session == ss[Len(ss)]
             last_avg == IF last_session.scores # <<>>
                         THEN np_mean(last_session.scores) ELSE RInt(0)
         IN  IF RLe(RInt(80), last_avg) THEN "celebration"
             ELSE IF RLe(RInt(60), last_avg) THEN "positive_reinforcement"
             ELSE IF RLe(RInt(40), last_avg) THEN "gentle_motivation"
             ELSE "supportive_comfort"

\* the texts of the source, without their emoji
character_interactions(strategy) ==
    CASE strategy = "celebration" ->
             "Imron dan Siti akan memberikan pujian khusus!"
      [] strategy = "positive_reinforcement" ->
             "Imron akan memberikan high-five virtual!"
      [] strategy = "gentle_motivation" ->
             "Siti akan memberikan semangat dengan lagu!"
      [] strategy = "supportive_comfort" ->
             "Imron dan Siti akan memberikan pelukan virtual!"
      [] strategy = "welcome_introduction" ->
             "Imron dan Siti akan memperkenalkan diri!"
      [] OTHER -> "Imron dan Siti siap membantu!"

\* learning_activities[style][:3]
learning_activities(style) ==
    CASE style = "visual" ->
             <<"Lihat gambar sambil mengucapkan kata",
               "Buat kartu kata bergambar",
               "Tonton video pengucapan">>
      [] style = "auditory" ->
             <<"Dengarkan contoh berkali-kali",
               "Nyanyikan kata-kata",
               "Rekam suara sendiri">>
      [] style = "kinesthetic" ->
             <<"Gerakan tangan saat mengucapkan",
               "Berjalan sambil berlatih",
               "Mainkan peran dengan kata">>
      [] OTHER ->
             <<"Kombinasi visual dan audio",
               "Bergerak sambil melihat dan mendengar",
               "Variasi aktivitas setiap sesi">>

\* the recommendation of the except clause
fallback_recommendation ==
    [next_words |-> <<"mama", "papa", "air">>,
     difficulty_adjustment |-> "maintain",
     recommended_break |-> FALSE,
     session_duration_suggestion |-> RInt(10),
     encouragement_strategy |-> "positive_reinforcement",
     character_interaction |-> "Imron dan Siti siap membantu!",
     learning_activities |-> <<"Dengarkan contoh dengan baik",
                               "Ucapkan pelan-pelan",
                               "Jangan terburu-buru">>]

\* mutant: the except clause reports the decision already made
recommendation_of_except_keeping_decision(p, ss) ==
    [fallback_recommendation EXCEPT
        !.difficulty_adjustment =
            determine_difficulty_adjustment(ss, p.current_level)]

\* what the except clause returns
recommendation_of_except(p, ss) == fallback_recommendation

\* mutant: the words are sampled at the profile's level, before the
\* transition is applied
generate_adaptive_recommendation_sampling_current_level(p, ss) ==
    LET difficulty_adjustment == determine_difficulty_adjustment(ss, p.current_level)
        new_difficulty == apply_difficulty_adjustment(difficulty_adjustment,
                                                      p.current_level)
        strategy == encouragement(ss)
    IN  IF composer_raises(ss)
        THEN { [recommendation |-> recommendation_of_except(p, ss),
                new_difficulty |-> new_difficulty,
                raised |-> TRUE] }
        ELSE { [recommendation |->
                    [next_words |-> next_words,
                     difficulty_adjustment |-> difficulty_adjustment,
                     recommended_break |-> recommended_break(p, ss),
                     session_duration_suggestion |-> suggested_duration(p),
                     encouragement_strategy |-> strategy,
                     character_interaction |-> character_interactions(strategy),
                     learning_activities |-> learning_activities(p.learning_style)],
                new_difficulty |-> new_difficulty,
                raised |-> FALSE] :
               next_words \in select_next_words(p, p.current_level, 5) }

\* The set of outcomes of generate_adaptive_recommendation: the returned
\* recommendation, with the local new_difficulty and whether the except
\* clause of the composer ran.
generate_adaptive_recommendation(p, ss) ==
    LET difficulty_adjustment == determine_difficulty_adjustment(ss, p.current_level)
        new_difficulty == apply_difficulty_adjustment(difficulty_adjustment,
                                                      p.current_level)
        strategy == encouragement(ss)
    IN  IF composer_raises(ss)
        THEN { [recommendation |-> recommendation_of_except(p, ss),
                new_difficulty |-> new_difficulty,
                raised |-> TRUE] }
        ELSE { [recommendation |->
                    [next_words |-> next_words,
                     difficulty_adjustment |-> difficulty_adjustment,
                     recommended_break |-> recommended_break(p, ss),
                     session_duration_suggestion |-> suggested_duration(p),
                     encouragement_strategy |-> strategy,
                     character_interaction |-> character_interactions(strategy),
                     learning_activities |-> learning_activities(p.learning_style)],
                new_difficulty |-> new_difficulty,
                raised |-> FALSE] :
               next_words \in select_next_words(p, new_difficulty, 5) }

\* mutant: the composer removes the sessions without attempts from the list
\* it was given
sessions_after_recommendation_dropping_empty(p, ss) ==
    LET Attempted(s) == s.scores # <<>>
    IN  SelectSeq(ss, Attempted)

\* The list of sessions the caller passed, after the call: the composer, the
\* decision, the analyzer and the sampler read the sessions and their
\* fields, slice the list into new lists, and assign nothing.
sessions_after_recommendation(p, ss) == ss

\* mutant: the composer stores the level it sampled at in the profile
profile_after_recommendation_storing_level(p, ss) ==
    [p EXCEPT !.current_level =
        apply_difficulty_adjustment(
            determine_difficulty_adjustment(ss, p.current_level),
            p.current_level)]

\* The Profile object the caller passed, after the call: the composer and
\* the sampler read its attributes, build new lists from strengths and
\* weaknesses, and assign no attribute; new_difficulty is a local.
profile_after_recommendation(p, ss) == p

-----------------------------------------------------------------------------
(* Gamification: levels and points *)

\* the level cap of calculate_level_from_points
MaxLevel == 100

\* math.floor(math.sqrt(total_points / 50)): the largest k with
\* 50 * k * k <= total_points
floor_sqrt_of_fiftieth(total_points) ==
    CHOOSE k \in 0..total_points :
        /\ 50 * k * k <= total_points
        /\ total_points < 50 * (k + 1) * (k + 1)

calculate_level_from_points(total_points) ==
    IF total_points < 100 THEN 1
    ELSE LET level == floor_sqrt_of_fiftieth(total_points) + 1
         IN  IF level <= MaxLevel THEN level ELSE MaxLevel

calculate_points_for_level(level) ==
    IF level <= 1 THEN 0 ELSE ((level - 1) * (level - 1)) * 50

\* what award_points stores for a user whose points total total_points
user_progress(total_points) ==
    [current_level |-> calculate_level_from_points(total_points),
     total_points |-> total_points]

\* the level, the XP within it and the XP span of the level that
\* get_user_level_info reports; the percentage is current_xp * 100 /
\* xp_for_next_level, or 100 for a span that is not positive
get_user_level_info(progress) ==
    LET current_level_min_points == calculate_points_for_level(progress.current_level)
        next_level_min_points == calculate_points_for_level(progress.current_level + 1)
        current_xp == progress.total_points - current_level_min_points
        xp_for_next_level == next_level_min_points - current_level_min_points
    IN  [current_level |-> progress.current_level,
         current_xp |-> current_xp,
         xp_for_next_level |-> xp_for_next_level,
         level_progress_percentage |->
             IF xp_for_next_level > 0
             THEN Rat(current_xp * 100, xp_for_next_level)
             ELSE RInt(100)]

-----------------------------------------------------------------------------
(* Specification of the session metrics analyzer: one session is analysed. *)
(* The analyzer keeps no state between calls, so a behaviour makes one     *)
(* call.                                                                   *)

\* attempt scores: the router copies "scores" from the request unchecked, so
\* besides 0.0, 0.5 and 1.0 a score can lie outside [0, 1]
AnalyzerScores == {0, 50, 100, 300}

\* the sessions with up to MaxAttempts attempts
AnalyzerSessions ==
    { LearningSession([i \in 1..Len(scores) |-> "mama"], scores, 10, 80) :
        scores \in UNION { [1..n -> AnalyzerScores] : n \in 0..MaxAttempts } }

InitAnalyzer ==
    /\ profile = create_default_user_profile(7)
    /\ before = profile
    /\ sessions = <<>>
    /\ op = "none"
    /\ result = "none"
    /\ clock = 0

AnalyzeSessionPerformance ==
    /\ op = "none"
    /\ \E session \in AnalyzerSessions :
          result' = [session |-> session,
                     metrics |-> analyze_session_performance(session)]
    /\ op' = "analyze_session_performance"
    /\ UNCHANGED <<profile, sessions, clock, before>>

NextAnalyzer == AnalyzeSessionPerformance

SpecAnalyzer == InitAnalyzer /\ [][NextAnalyzer]_vars

-----------------------------------------------------------------------------
(* Specification of the difficulty decision: the caller collects a history *)
(* and asks for the decision.                                              *)

\* sessions the difficulty specification draws from: (scores, engagement)
DifficultySessions ==
    { LearningSession(<<"mama">>, <<100>>, 10, 80),
      LearningSession(<<"mama">>, <<90>>, 10, 80),
      LearningSession(<<"mama">>, <<40>>, 10, 80),
      LearningSession(<<"mama">>, <<100>>, 10, 30),
      LearningSession(<<"mama">>, <<100>>, 10, None),
      LearningSession(<<>>, <<>>, 10, 80) }

InitDifficulty ==
    /\ profile = create_default_user_profile(7)
    /\ before = profile
    /\ sessions = <<>>
    /\ op = "none"
    /\ result = "none"
    /\ clock = 0

AppendDifficultySession ==
    /\ Len(sessions) < MaxSessions
    /\ \E s \in DifficultySessions : sessions' = Append(sessions, s)
    /\ op' = "none"
    /\ result' = "none"
    /\ UNCHANGED <<profile, clock, before>>

DetermineDifficultyAdjustment ==
    /\ result' = [adjustment |->
                     determine_difficulty_adjustment(sessions, profile.current_level)]
    /\ op' = "determine_difficulty_adjustment"
    /\ UNCHANGED <<profile, sessions, clock, before>>

NextDifficulty == AppendDifficultySession \/ DetermineDifficultyAdjustment

SpecDifficulty == InitDifficulty /\ [][NextDifficulty]_vars

-----------------------------------------------------------------------------
(* Specification of the profile aggregator: the caller's history grows and *)
(* the stored profile is updated from it, up to MaxUpdates times.          *)

\* sessions the profile specification draws from
ProfileSessions ==
    { LearningSession(<<"mama", "papa">>, <<90, 40>>, 10, 70),
      LearningSession(<<"mama", "papa">>, <<40, 90>>, 20, 90),
      LearningSession(<<"air">>, <<50>>, 10, None),
      LearningSession(<<"air">>, <<90>>, None, 90) }

\* stored profiles the profile specification starts from: a new user's
\* profile, with a stored style and stored (disjoint) word lists
StoredProfiles ==
    { [create_default_user_profile(7) EXCEPT
          !.learning_style = style,
          !.strengths = <<"papa">>,
          !.weaknesses = <<"mama">>] : style \in {"visual", "mixed"} }

InitProfile ==
    /\ profile \in StoredProfiles
    /\ before = profile
    /\ sessions = <<>>
    /\ op = "none"
    /\ result = "none"
    /\ clock = 0

AppendProfileSession ==
    /\ Len(sessions) < MaxProfileSessions
    /\ \E s \in ProfileSessions : sessions' = Append(sessions, s)
    /\ op' = "none"
    /\ result' = "none"
    /\ before' = profile
    /\ UNCHANGED <<profile, clock>>

UpdateUserProfile ==
    /\ clock < MaxUpdates
    /\ LET r == update_user_profile(profile, sessions, clock + 1)
       IN  /\ profile' = r.profile
           /\ result' = [raised |-> r.raised]
    /\ op' = "update_user_profile"
    /\ clock' = clock + 1
    /\ before' = profile
    /\ UNCHANGED sessions

NextProfile == AppendProfileSession \/ UpdateUserProfile

SpecProfile == InitProfile /\ [][NextProfile]_vars

-----------------------------------------------------------------------------
(* Specification of the word lists: the caller builds a history of        *)
(* sessions that practise more than 20 words, longer than the window of 10 *)
(* sessions, and then updates the stored profile from it.                  *)

\* the 21 words a long session practises: the words of the five tables,
\* the word MEDIUM and HARD share once, and two more words of VERY_EASY
PracticeWords ==
    word_categories("very_easy") \o word_categories("easy") \o
    word_categories("medium") \o SubSeq(word_categories("hard"), 1, 3) \o
    word_categories("very_hard") \o <<"makan", "minum">>

\* sessions the word-list specification draws from: the 21 words right and
\* "tidur" wrong, and "tidur" right and the 21 words wrong
WordSessions ==
    { LearningSession(PracticeWords \o <<"tidur">>,
                      [i \in 1..(Len(PracticeWords) + 1) |->
                          IF i <= Len(PracticeWords) THEN 100 ELSE 0],
                      10, 80),
      LearningSession(<<"tidur">> \o PracticeWords,
                      [i \in 1..(Len(PracticeWords) + 1) |->
                          IF i = 1 THEN 100 ELSE 0],
                      10, 80) }

\* a stored profile that has one update left
InitWordLists ==
    /\ profile = [create_default_user_profile(7) EXCEPT
                     !.strengths = <<"papa">>,
                     !.weaknesses = <<"mama">>]
    /\ before = profile
    /\ sessions = <<>>
    /\ op = "none"
    /\ result = "none"
    /\ clock = MaxUpdates - 1

\* the history is complete before the profile is updated from it
AppendWordSession ==
    /\ op = "none"
    /\ Len(sessions) < MaxWordSessions
    /\ \E s \in WordSessions : sessions' = Append(sessions, s)
    /\ UNCHANGED <<profile, op, result, clock, before>>

NextWordLists == AppendWordSession \/ UpdateUserProfile

SpecWordLists == InitWordLists /\ [][NextWordLists]_vars

-----------------------------------------------------------------------------
(* Specification of the curriculum sampler: the caller holds a stored      *)
(* profile and asks for words of any level, any number of times.           *)

\* stored strengths the sampler specification starts from
SamplerStrengths ==
    { <<>>, <<"mama">>, <<"mama", "papa", "bola">>,
      <<"mama", "papa", "bola", "air">> }

\* stored weaknesses the sampler specification starts from: none, one word,
\* a repeated word, two words, and a word of another level
SamplerWeaknesses ==
    { <<>>, <<"papa">>, <<"papa", "papa">>, <<"papa", "bola">>,
      <<"air", "guru">> }

SamplerProfiles ==
    { [create_default_user_profile(7) EXCEPT
          !.strengths = s, !.weaknesses = w] :
      s \in SamplerStrengths, w \in SamplerWeaknesses }

InitSampler ==
    /\ profile \in SamplerProfiles
    /\ before = profile
    /\ sessions = <<>>
    /\ op = "none"
    /\ result = "none"
    /\ clock = 0

SelectNextWords ==
    /\ \E difficulty \in DifficultyLevel, count \in 0..MaxCount :
          \E words \in select_next_words(profile, difficulty, count) :
              result' = [difficulty |-> difficulty, count |-> count,
                         next_words |-> words]
    /\ op' = "select_next_words"
    /\ before' = profile
    /\ UNCHANGED <<profile, sessions, clock>>

NextSampler == SelectNextWords

SpecSampler == InitSampler /\ [][NextSampler]_vars

-----------------------------------------------------------------------------
(* Specification of the pronunciation scorer: a word is scored against a   *)
(* target word, with the recognizer's confidence or without.  The scorer   *)
(* keeps no state between calls, so a behaviour makes one call.            *)

\* the letters the speech specification builds every short text from
Alphabet == {"f", "p", "a"}

\* the texts of the scenarios: mama, papa, a transcript with capitals,
\* punctuation and extra spaces, the two sides of every substitution rule,
\* and transcripts that are all punctuation
ScenarioTexts ==
    { <<"m", "a", "m", "a">>, <<"p", "a", "p", "a">>,
      <<"M", "a", "m", "a", "!">>, <<" ", "m", "a", " ", "\t", "m", "a">>,
      <<"f", "a", "f", "a">>,
      <<"t", "h">>, <<"t">>, <<"h">>,
      <<"v">>, <<"b">>, <<"z">>, <<"s">>, <<"c", "h">>, <<"c">>,
      <<"!">>, <<"?">> }

SpeechTexts ==
    ScenarioTexts \cup UNION { [1..n -> Alphabet] : n \in 0..MaxLen }

\* recognizer confidences, two of them outside [0, 1]
Confidences == {-50, 0, 50, 95, 100, 150}

InitSpeech ==
    /\ profile = create_default_user_profile(7)
    /\ before = profile
    /\ sessions = <<>>
    /\ op = "none"
    /\ result = "none"
    /\ clock = 0

AnalyzePronunciation ==
    /\ op = "none"
    /\ \E spoken_word \in SpeechTexts, target_word \in SpeechTexts,
          confidence \in Confidences :
          result' = analyze_pronunciation(spoken_word, target_word, confidence)
    /\ op' = "analyze_pronunciation"
    /\ UNCHANGED <<profile, sessions, clock, before>>

CalculatePronunciationScore ==
    /\ op = "none"
    /\ \E spoken \in SpeechTexts, target \in SpeechTexts :
          result' = [spoken |-> spoken, target |-> target,
                     score |-> calculate_word_similarity(spoken, target)]
    /\ op' = "calculate_pronunciation_score"
    /\ UNCHANGED <<profile, sessions, clock, before>>

\* the lists of target words of an utterance: none, one, and three
TargetWordLists ==
    { <<>>, << <<"m", "a">> >>,
      << <<"m", "a">>, <<"p", "a">>, <<"a">> >> }

\* the transcripts the recognizer gives: an empty one, one word, two words,
\* two words with a capital and punctuation, and four words
Transcripts ==
    { <<>>,
      <<"m", "a">>,
      <<"m", "a", " ", "p", "a">>,
      <<"M", "a", ",", " ", "p", "a", "!">>,
      <<"m", "a", " ", "p", "a", " ", "a", " ", "f", "a">> }

\* the word-level confidences the recognizer gives: none, or one for "Ma"
WordInfos ==
    { <<>>, << [word |-> <<"M", "a">>, confidence |-> 50] >> }

\* what transcribe_audio returns: the recognizer's first alternative, or the
\* dictionary with the 'error' key when the recognizer has no result or the
\* call raises
transcribe_audio ==
    { no_speech_detected }
    \cup { transcription_of(transcript, confidence, words) :
             transcript \in Transcripts, confidence \in {0, 95},
             words \in WordInfos }

AnalyzeSpeechComprehensive ==
    /\ op = "none"
    /\ \E transcription_result \in transcribe_audio,
          target_words \in TargetWordLists :
          result' = [transcription_result |-> transcription_result,
                     target_words |-> target_words,
                     analysis |-> analyze_speech_comprehensive(
                                      transcription_result, target_words)]
    /\ op' = "analyze_speech_comprehensive"
    /\ UNCHANGED <<profile, sessions, clock, before>>

NextSpeech ==
    \/ AnalyzePronunciation
    \/ CalculatePronunciationScore
    \/ AnalyzeSpeechComprehensive

SpecSpeech == InitSpeech /\ [][NextSpeech]_vars

-----------------------------------------------------------------------------
(* Specification of the engine: the caller holds a stored profile, its     *)
(* session history grows, and it updates the profile and asks for          *)
(* recommendations in any order.                                           *)

\* sessions the engine specification draws from
EngineSessions ==
    { LearningSession(<<"mama", "papa">>, <<100, 40>>, 10, 80),
      LearningSession(<<"mama">>, <<100>>, 20, 80),
      LearningSession(<<"papa">>, <<30>>, 10, 30),
      LearningSession(<<>>, <<>>, 0, 80),
      LearningSession(<<"air">>, <<50>>, None, 80),
      LearningSession(<<"air">>, <<40>>, 10, None) }

\* stored profiles the engine specification starts from: the default
\* profile of a 6 or 9 year old at any stored level, and one whose stored
\* strengths are null
EngineProfiles ==
    { [create_default_user_profile(age) EXCEPT !.current_level = level] :
        age \in {6, 9}, level \in DifficultyLevel }
    \cup { [create_default_user_profile(7) EXCEPT !.strengths = NoneList] }

Init ==
    /\ profile \in EngineProfiles
    /\ before = profile
    /\ sessions = <<>>
    /\ op = "none"
    /\ result = "none"
    /\ clock = 0

AppendSession ==
    /\ Len(sessions) < MaxHistory
    /\ \E s \in EngineSessions : sessions' = Append(sessions, s)
    /\ op' = "none"
    /\ result' = "none"
    /\ before' = profile
    /\ UNCHANGED <<profile, clock>>

GenerateAdaptiveRecommendation ==
    /\ result' \in generate_adaptive_recommendation(profile, sessions)
    /\ profile' = profile_after_recommendation(profile, sessions)
    /\ sessions' = sessions_after_recommendation(profile, sessions)
    /\ op' = "generate_adaptive_recommendation"
    /\ before' = profile
    /\ UNCHANGED clock

Next == AppendSession \/ UpdateUserProfile \/ GenerateAdaptiveRecommendation

Spec == Init /\ [][Next]_vars

-----------------------------------------------------------------------------
(* Specification of one recommendation request: the caller holds a stored  *)
(* profile and a session history and asks for recommendations for them.    *)

\* the profiles update_user_profile stores for a new 6 or 9 year old after
\* one session
UpdatedProfiles ==
    { update_user_profile(create_default_user_profile(age), <<s>>, 1).profile :
        age \in {6, 9}, s \in EngineSessions }

RequestProfiles == EngineProfiles \cup UpdatedProfiles

\* the histories of up to MaxHistory sessions
RequestHistories ==
    UNION { [1..n -> EngineSessions] : n \in 0..MaxHistory }

InitRequest ==
    /\ profile \in RequestProfiles
    /\ before = profile
    /\ sessions \in RequestHistories
    /\ op = "none"
    /\ result = "none"
    /\ clock = 0

NextRequest == GenerateAdaptiveRecommendation

SpecRequest == InitRequest /\ [][NextRequest]_vars

-----------------------------------------------------------------------------
(* Specification of the levels: a level is computed from a total of points, *)
(* the minimum points of a level are computed, or the level information of *)
(* a user is read.  The helpers keep no state, so a behaviour makes one     *)
(* call.                                                                    *)

\* the levels
Levels == 1..MaxLevel

\* totals of points: every total up to MaxPoints, and the totals around the
\* minimum points of every level, the one past the cap included
TotalPoints ==
    (0..MaxPoints)
    \cup { calculate_points_for_level(level) + d :
             level \in 2..(MaxLevel + 1), d \in {-1, 0, 1} }

InitLevels ==
    /\ profile = create_default_user_profile(7)
    /\ before = profile
    /\ sessions = <<>>
    /\ op = "none"
    /\ result = "none"
    /\ clock = 0

CalculateLevelFromPoints ==
    /\ op = "none"
    /\ \E total_points \in TotalPoints :
          result' = [total_points |-> total_points,
                     level |-> calculate_level_from_points(total_points)]
    /\ op' = "calculate_level_from_points"
    /\ UNCHANGED <<profile, sessions, clock, before>>

\* the minimum points of a level, and the level of these points
CalculatePointsForLevel ==
    /\ op = "none"
    /\ \E level \in Levels :
          LET points == calculate_points_for_level(level)
          IN  result' = [level |-> level,
                         points |-> points,
                         level_of_points |-> calculate_level_from_points(points)]
    /\ op' = "calculate_points_for_level"
    /\ UNCHANGED <<profile, sessions, clock, before>>

GetUserLevelInfo ==
    /\ op = "none"
    /\ \E total_points \in TotalPoints :
          result' = [progress |-> user_progress(total_points),
                     info |-> get_user_level_info(user_progress(total_points))]
    /\ op' = "get_user_level_info"
    /\ UNCHANGED <<profile, sessions, clock, before>>

NextLevels ==
    \/ CalculateLevelFromPoints
    \/ CalculatePointsForLevel
    \/ GetUserLevelInfo

SpecLevels == InitLevels /\ [][NextLevels]_vars

-----------------------------------------------------------------------------
(* Properties of the session metrics analyzer *)

\* the last call analysed a session
Analysed == op = "analyze_session_performance"

\* the number of attempts of the analysed session
AttemptCount == Len(result.session.scores)

\* C22: for a session with zero attempts the analyzer returns average_score
\* 0.0, consistency 0, improvement_trend 0 and difficulty_appropriateness 0.5
C22_ZeroAttemptsDefaults ==
    (Analysed /\ AttemptCount = 0) =>
        /\ result.metrics.average_score = RInt(0)
        /\ SurdLe(result.metrics.consistency, 0)
        /\ SurdGe(result.metrics.consistency, 0)
        /\ result.metrics.improvement_trend = RInt(0)
        /\ result.metrics.difficulty_appropriateness = 50

\* a session with zero attempts was analysed
C22_Witness == Analysed /\ AttemptCount = 0

\* C23: for every list of attempt scores consistency is within [0, 1] and
\* improvement_trend within [-1, 1], and with fewer than 2 attempts the
\* trend is 0
C23_MetricsInRange ==
    Analysed =>
        /\ SurdGe(result.metrics.consistency, 0)
        /\ SurdLe(result.metrics.consistency, 100)
        /\ RLe(RInt(-100), result.metrics.improvement_trend)
        /\ RLe(result.metrics.improvement_trend, RInt(100))
        /\ AttemptCount < 2 => result.metrics.improvement_trend = RInt(0)

\* a session whose standard deviation exceeds 1 and whose slope, scaled by
\* 10, exceeds 1 was analysed: both clamps were applied
C23_Witness ==
    /\ Analysed
    /\ AttemptCount >= 2
    /\ ~SurdLe(score_std(result.session.scores), 100)
    /\ RLt(RInt(100),
           Rat(10 * trend_coef(result.session.scores).n,
               trend_coef(result.session.scores).d))
    /\ SurdLe(result.metrics.consistency, 0)
    /\ result.metrics.improvement_trend = RInt(100)

-----------------------------------------------------------------------------
(* Properties of the difficulty decision, stated on the sessions themselves *)

Determined == op = "determine_difficulty_adjustment"

\* the sessions the decision looks at
Window == LastN(sessions, 5)

\* every engagement level in the window is a number
WindowWellFormed == \A i \in 1..Len(Window) : Window[i].engagement_level # None

\* mean attempt score of one session, 0.0 without attempts
MeanScore(s) == IF s.scores = <<>> THEN RInt(0) ELSE np_mean(s.scores)

\* the five buckets: >0.9 -> 0.3, >0.7 -> 1.0, >0.5 -> 0.8, >0.3 -> 0.5, else 0.2;
\* 0.5 for a session without attempts
Bucket(s) ==
    IF s.scores = <<>> THEN 50
    ELSE IF MeanScore(s).n > 90 * MeanScore(s).d THEN 30
    ELSE IF MeanScore(s).n > 70 * MeanScore(s).d THEN 100
    ELSE IF MeanScore(s).n > 50 * MeanScore(s).d THEN 80
    ELSE IF MeanScore(s).n > 30 * MeanScore(s).d THEN 50
    ELSE 20

WindowAvgScore == np_mean_r([i \in 1..Len(Window) |-> MeanScore(Window[i])])

WindowAvgEngagement == np_mean([i \in 1..Len(Window) |-> Window[i].engagement_level])

WindowAvgAppropriateness == np_mean([i \in 1..Len(Window) |-> Bucket(Window[i])])

MasteringAndBored ==
    /\ RLe(RInt(85), WindowAvgScore)
    /\ RLe(RInt(70), WindowAvgEngagement)
    /\ RLt(WindowAvgAppropriateness, RInt(50))

StrugglingOrDisengaged ==
    \/ RLe(WindowAvgScore, RInt(40))
    \/ RLe(WindowAvgEngagement, RInt(30))

\* C3: for every non-empty history, also one whose last 5 sessions include
\* sessions without attempts, the decision is "decrease" whenever the average
\* score of the last 5 sessions is <= 0.4 or their average engagement <= 0.3.
C3_DecreaseWhenStrugglingOrDisengaged ==
    (Determined /\ sessions # <<>> /\ WindowWellFormed /\ StrugglingOrDisengaged)
        => result.adjustment = "decrease"

\* C4: on a non-empty history the decision is "increase" exactly when, over
\* the last 5 sessions, avg_score >= 0.85, avg_engagement >= 0.7 and
\* avg_difficulty_appropriateness < 0.5.
C4_IncreaseExactlyWhenMasteringAndBored ==
    (Determined /\ sessions # <<>> /\ WindowWellFormed)
        => (result.adjustment = "increase" <=> MasteringAndBored)

\* an "increase" at the score boundary: the window averages exactly 0.85
C4_Witness ==
    /\ Determined /\ sessions # <<>> /\ WindowWellFormed
    /\ MasteringAndBored
    /\ WindowAvgScore = RInt(85)
    /\ result.adjustment = "increase"

\* scenario D: 5 sessions, each with mean attempt score 0.9 and engagement 0.8
ScenarioD ==
    /\ Len(sessions) = 5
    /\ \A i \in 1..5 : /\ sessions[i].scores # <<>>
                        /\ MeanScore(sessions[i]) = RInt(90)
                        /\ sessions[i].engagement_level = 80

\* C5 as claimed: scenario D makes the decision "increase".
C5_ScenarioD_Increase ==
    (Determined /\ ScenarioD) => result.adjustment = "increase"

\* C5 as amended: scenario D makes the decision "maintain" (a mean of exactly
\* 0.9 is in the 1.0 bucket, so avg_difficulty_appropriateness is 1.0).
C5_ScenarioD_Maintain ==
    (Determined /\ ScenarioD) => result.adjustment = "maintain"

C5_Witness == Determined /\ ScenarioD /\ WindowAvgAppropriateness = RInt(100)

\* C6: the decision is one of "increase", "decrease", "maintain"; it is
\* "maintain" for an empty history and whenever neither the increase rule nor
\* the decrease rule matches the window's metrics.
C6_MaintainByDefault ==
    Determined =>
        /\ result.adjustment \in {"increase", "decrease", "maintain"}
        /\ sessions = <<>> => result.adjustment = "maintain"
        /\ (sessions # <<>> /\ WindowWellFormed
                /\ ~MasteringAndBored /\ ~StrugglingOrDisengaged)
              => result.adjustment = "maintain"

\* a non-empty history that matches neither rule
C6_Witness ==
    /\ Determined /\ sessions # <<>> /\ WindowWellFormed
    /\ ~MasteringAndBored /\ ~StrugglingOrDisengaged
    /\ result.adjustment = "maintain"

-----------------------------------------------------------------------------
(* Properties of the profile aggregator *)

Updated == op = "update_user_profile"

\* C8: after any sequence of update_user_profile calls on a profile whose
\* strengths and weaknesses start disjoint, no word is in both lists.
C8_StrengthsWeaknessesDisjoint ==
    \A i \in 1..Len(profile.strengths) :
        ~IsIn(profile.strengths[i], profile.weaknesses)

\* an update has moved the stored weak word "mama" into strengths, next to a
\* weak word
C8_Witness ==
    /\ Updated /\ ~result.raised
    /\ IsIn("mama", before.weaknesses)
    /\ IsIn("mama", profile.strengths)
    /\ profile.weaknesses # <<>>

\* C9: when update_user_profile hits an internal error, the profile it
\* returns has every field as it was before the call.
C9_ErrorLeavesProfileUnmodified ==
    (Updated /\ result.raised) => profile = before

\* C10 as claimed: a mean engagement over the last 5 sessions of 0.8 or more
\* leaves learning_style untouched, a mean below 0.8 makes it MIXED.
C10_StyleKeptFrom80 ==
    (Updated /\ ~result.raised /\ sessions # <<>>) =>
        IF RLe(RInt(80), WindowAvgEngagement)
        THEN profile.learning_style = before.learning_style
        ELSE profile.learning_style = "mixed"

\* C10 as amended: on a call that completes on a non-empty history, a mean
\* engagement strictly above 0.8 leaves learning_style untouched, and a mean
\* of 0.8 or less (exactly 0.8 included) makes it MIXED.
C10_StyleKeptAbove80 ==
    (Updated /\ ~result.raised /\ sessions # <<>>) =>
        IF RLt(RInt(80), WindowAvgEngagement)
        THEN profile.learning_style = before.learning_style
        ELSE profile.learning_style = "mixed"

\* a mean engagement of exactly 0.8 has turned a visual learner into MIXED
C10_Witness ==
    /\ Updated /\ ~result.raised /\ sessions # <<>>
    /\ WindowAvgEngagement = RInt(80)
    /\ before.learning_style = "visual"
    /\ profile.learning_style = "mixed"

\* a mean engagement above 0.8 has kept the visual style
C10_WitnessKept ==
    /\ Updated /\ ~result.raised /\ sessions # <<>>
    /\ RLt(RInt(80), WindowAvgEngagement)
    /\ profile.learning_style = "visual"

\* C11: across any sequence of update_user_profile calls, once
\* profile.learning_style is MIXED it stays MIXED in every later state: no
\* step sets the style to a more specific value.
C11_MixedStaysMixed ==
    [][profile.learning_style = "mixed" => profile'.learning_style = "mixed"]_vars

\* a second completed update, on a highly engaged history, has left a MIXED
\* profile MIXED
C11_Witness ==
    /\ Updated /\ ~result.raised /\ sessions # <<>>
    /\ clock = MaxUpdates
    /\ RLt(RInt(80), WindowAvgEngagement)
    /\ before.learning_style = "mixed"
    /\ profile.learning_style = "mixed"

\* the sessions update_user_profile examines
RecentWindow == LastN(sessions, 10)

\* every attempt of the window: <<number of the session, number of the word>>
Attempts ==
    UNION { { <<i, j>> : j \in 1..Len(RecentWindow[i].words_practiced) } :
            i \in 1..Len(RecentWindow) }

AttemptedWord(a) == RecentWindow[a[1]].words_practiced[a[2]]

PractisedWords == { AttemptedWord(a) : a \in Attempts }

RECURSIVE ScoreTotal(_)
ScoreTotal(as) ==
    IF as = {} THEN 0
    ELSE LET a == CHOOSE x \in as : TRUE
         IN  RecentWindow[a[1]].scores[a[2]] + ScoreTotal(as \ {a})

Earlier(a, b) == a[1] < b[1] \/ (a[1] = b[1] /\ a[2] < b[2])

\* for every practised word, its mean score over the window and its first
\* attempt in the window (the age of its entry in a list)
WordFacts ==
    LET attempts == Attempts
    IN  [w \in PractisedWords |->
            LET mine == { a \in attempts : AttemptedWord(a) = w }
            IN  [mean |-> Rat(ScoreTotal(mine), Cardinality(mine)),
                 first |-> CHOOSE a \in mine :
                               \A b \in mine : a = b \/ Earlier(a, b)]]

\* `list` holds, oldest first and at most 20 of them, the words of
\* `qualifying`, and a qualifying word is missing only when the list is full
\* and the word is older than every entry kept
MostRecent20(list, qualifying, facts) ==
    /\ Len(list) <= 20
    /\ \A i \in 1..Len(list) : list[i] \in qualifying
    /\ \A i \in 1..(Len(list) - 1) :
           Earlier(facts[list[i]].first, facts[list[i + 1]].first)
    /\ \A w \in qualifying :
           ~IsIn(w, list) =>
               Len(list) = 20 /\ Earlier(facts[w].first, facts[list[1]].first)

\* the call got as far as assigning the two lists
ListsAssigned ==
    /\ Updated /\ sessions # <<>>
    /\ \A i \in 1..Len(RecentWindow) : RecentWindow[i].session_duration # None

-----------------------------------------------------------------------------
(* Properties of the curriculum sampler *)

Selected == op = "select_next_words"

\* the word universe of the level the words were asked at
Universe == word_categories(result.difficulty)

UniverseWords == { Universe[i] : i \in 1..Len(Universe) }

Mastered(w) == IsIn(w, profile.strengths)

WeakWord(w) == IsIn(w, profile.weaknesses)

NoDuplicates(list) == \A i, j \in 1..Len(list) : i # j => list[i] # list[j]

\* max(1, N // 3)
ReviewCap == IF result.count \div 3 >= 1 THEN result.count \div 3 ELSE 1

\* the weak words that remain in the candidate pool
ReviewPool == { w \in UniverseWords : WeakWord(w) /\ ~Mastered(w) }

NonWeakCandidates == { w \in UniverseWords : ~WeakWord(w) /\ ~Mastered(w) }

\* the entries of the result that are weak words
WeakReturned ==
    { i \in 1..Len(result.next_words) : WeakWord(result.next_words[i]) }

\* C13: for every profile (also one whose weaknesses list repeats a word),
\* level and count N, select_next_words returns a list without duplicate
\* words and with at most N words.
C13_NoDuplicatesAtMostN ==
    Selected =>
        /\ NoDuplicates(result.next_words)
        /\ Len(result.next_words) <= result.count

\* C14: whatever the random outcome, at most max(1, N // 3) of the returned
\* words are in profile.weaknesses whenever the non-weak, non-mastered
\* candidates suffice to fill the rest of the batch.
C14_ReviewCapped ==
    LET reviewed == IF Cardinality(ReviewPool) <= ReviewCap
                    THEN Cardinality(ReviewPool) ELSE ReviewCap
    IN  (Selected /\ Cardinality(NonWeakCandidates) >= result.count - reviewed) =>
            Cardinality(WeakReturned) <= ReviewCap

C15_WitnessTopUp ==
    /\ Selected
    /\ Cardinality({ w \in UniverseWords : ~Mastered(w) }) < result.count
    /\ \E i \in 1..Len(result.next_words) : Mastered(result.next_words[i])

\* C16: when N >= 3 and a word of profile.weaknesses is in the universe of
\* the level and not in profile.strengths, the result holds at least one
\* word of profile.weaknesses.
C16_WeakWordIncluded ==
    (Selected /\ result.count >= 3 /\ ReviewPool # {}) => WeakReturned # {}

\* three words of four were asked with one weak word in the pool, so that
\* the non-weak candidates alone could have filled the batch
C16_Witness ==
    /\ Selected
    /\ result.count = 3
    /\ Cardinality(ReviewPool) = 1
    /\ Cardinality(NonWeakCandidates) >= 3
    /\ WeakReturned # {}

\* C17: for every profile, level and N >= 0, select_next_words returns
\* exactly min(N, size of the universe of the level) words.
C17_ExactlyMinOfCountAndUniverse ==
    Selected =>
        Len(result.next_words) =
            IF result.count <= Len(Universe) THEN result.count ELSE Len(Universe)

-----------------------------------------------------------------------------
(* Properties of the pronunciation scorer *)

Scored == op = "calculate_pronunciation_score"

Analyzed == op = "analyze_pronunciation"

Characters(text) == { text[i] : i \in 1..Len(text) }

Normalized(text) == normalize_text(str_lower(text))

\* the two words share no character after normalization
NoSharedCharacter ==
    Characters(Normalized(result.spoken)) \cap
        Characters(Normalized(result.target)) = {}

\* the two words share no character after the substitution rules either
NoSharedCharacterAfterRules ==
    Characters(apply_phonetic_rules(Normalized(result.spoken))) \cap
        Characters(apply_phonetic_rules(Normalized(result.target))) = {}

BothEmpty == Normalized(result.spoken) = <<>> /\ Normalized(result.target) = <<>>

\* C18 as claimed: for spoken and target strings that share no character
\* after normalization, calculate_word_similarity returns 0.0.
C18_DisjointGivesZero ==
    (Scored /\ NoSharedCharacter) => result.score = RInt(0)

\* C18 as amended: for spoken and target strings, not both empty after
\* normalization, that share no character after normalization and none
\* after the substitution rules are applied to both,
\* calculate_word_similarity returns 0.0.
C18_DisjointAfterRulesGivesZero ==
    (Scored /\ NoSharedCharacter /\ NoSharedCharacterAfterRules /\ ~BothEmpty) =>
        result.score = RInt(0)

\* "Mama!" against "fff": no character in common, before and after the
\* rules, and a score of 0.0
C18_Witness ==
    /\ Scored
    /\ result.spoken = <<"M", "a", "m", "a", "!">>
    /\ result.target = <<"f", "f", "f">>
    /\ NoSharedCharacter /\ NoSharedCharacterAfterRules /\ ~BothEmpty
    /\ result.score = RInt(0)

\* "f" against "p": no character in common, and a score of 1.0 through the
\* rule f -> p
C18_WitnessRule ==
    /\ Scored
    /\ result.spoken = <<"f">> /\ result.target = <<"p">>
    /\ NoSharedCharacter
    /\ result.score = RInt(100)

\* C19: for identical spoken and target strings analyze_pronunciation gives
\* similarity_score 1.0, phonetic_accuracy 0.7 + 0.3 * confidence and the
\* "perfect" feedback; "mama" against "mama" at confidence 0.95 gives a
\* phonetic_accuracy of 0.985.
C19_IdenticalIsPerfect ==
    (Analyzed /\ result.word = result.target_word) =>
        /\ result.similarity_score = RInt(100)
        /\ result.phonetic_accuracy = Rat(700 + 3 * result.confidence, 10)
        /\ result.feedback = "Bagus sekali! Pengucapan sempurna!"
        /\ (result.word = <<"m", "a", "m", "a">> /\ result.confidence = 95) =>
               result.phonetic_accuracy = Rat(985, 10)

\* scenario A
C19_Witness ==
    /\ Analyzed
    /\ result.word = <<"m", "a", "m", "a">>
    /\ result.target_word = <<"m", "a", "m", "a">>
    /\ result.confidence = 95
    /\ result.phonetic_accuracy = Rat(985, 10)

\* C20: for every spoken text, target word and confidence given to
\* analyze_pronunciation, a confidence outside [0, 1] included,
\* similarity_score and phonetic_accuracy are both within [0, 1].
C20_ScoresWithinUnitInterval ==
    Analyzed =>
        /\ RLe(RInt(0), result.similarity_score)
        /\ RLe(result.similarity_score, RInt(100))
        /\ RLe(RInt(0), result.phonetic_accuracy)
        /\ RLe(result.phonetic_accuracy, RInt(100))

\* the last call scored a whole utterance
Comprehended == op = "analyze_speech_comprehensive"

\* the words of the transcript the last call scored
SpokenWords == str_split(normalize_text(result.transcription_result.transcript))

\* the i-th result is the one of a target word that was not spoken
NotYetSpoken(i) ==
    LET r == result.analysis.pronunciation_results[i]
    IN  /\ r.word = <<>>
        /\ r.target_word = result.target_words[i]
        /\ r.similarity_score = RInt(0)
        /\ r.phonetic_accuracy = RInt(0)
        /\ r.feedback = not_spoken_feedback(result.target_words[i])

\* one result per target word, in the order of the target words, and a
\* target word without a transcript word at its index is "not yet spoken"
OneResultPerTargetWord ==
    LET results == result.analysis.pronunciation_results
    IN  /\ Len(results) = Len(result.target_words)
        /\ \A i \in 1..Len(results) :
              /\ results[i].target_word = result.target_words[i]
              /\ i <= Len(SpokenWords) => results[i].word = SpokenWords[i]
              /\ i > Len(SpokenWords) => NotYetSpoken(i)

\* C21: whole-utterance scoring returns one PronunciationResult per target
\* word, aligned by position, a target word without a transcript word at its
\* index scoring 0 with the "not yet spoken" feedback; an empty transcript
\* against 3 target words gives three results scoring 0 and overall score 0
C21_OneResultPerTargetWord ==
    Comprehended =>
        /\ OneResultPerTargetWord
        /\ (result.transcription_result.transcript = <<>>
              /\ Len(result.target_words) = 3)
           => /\ Len(result.analysis.pronunciation_results) = 3
              /\ \A i \in 1..3 : NotYetSpoken(i)
              /\ result.analysis.overall_score = RInt(0)

-----------------------------------------------------------------------------
(* Properties of the recommendation composer *)

Recommended == op = "generate_adaptive_recommendation"

\* the decision step fails inside: a session of the last 5 has no attempts
\* or no numeric engagement level
DecisionStepFailed ==
    /\ sessions # <<>>
    /\ \E i \in 1..Len(Window) :
          Window[i].scores = <<>> \/ Window[i].engagement_level = None

\* the sampling step fails inside: a word list of the profile is null
SamplerStepFailed == profile.strengths = NoneList \/ profile.weaknesses = NoneList

\* a step of the composer's own body fails: a session of the last 3 has no
\* numeric duration
ComposerStepFailed ==
    \E i \in 1..Len(LastN(sessions, 3)) :
        LastN(sessions, 3)[i].session_duration = None

IsSafeDefault(r) ==
    /\ r.next_words = <<"mama", "papa", "air">>
    /\ r.difficulty_adjustment = "maintain"
    /\ r.recommended_break = FALSE
    /\ r.session_duration_suggestion = RInt(10)
    /\ r.encouragement_strategy = "positive_reinforcement"

IsRecommendation(r) ==
    /\ DOMAIN r = {"next_words", "difficulty_adjustment", "recommended_break",
                   "session_duration_suggestion", "encouragement_strategy",
                   "character_interaction", "learning_activities"}
    /\ r.difficulty_adjustment \in {"increase", "decrease", "maintain"}
    /\ r.recommended_break \in BOOLEAN
    /\ r.encouragement_strategy \in
          {"celebration", "positive_reinforcement", "gentle_motivation",
           "supportive_comfort", "welcome_introduction"}
    /\ Len(r.learning_activities) = 3

\* C1 as claimed: every call returns a recommendation, and whenever any step
\* of the chain fails the result is exactly the safe default.
C1_AnyFailureGivesSafeDefault ==
    Recommended =>
        /\ IsRecommendation(result.recommendation)
        /\ (DecisionStepFailed \/ SamplerStepFailed \/ ComposerStepFailed)
              => IsSafeDefault(result.recommendation)

\* C1 as amended: every call returns a recommendation; a failure of the
\* composer's own body gives exactly the safe default; a failure inside the
\* decision step gives "maintain" and a failure inside the sampling step
\* gives the sampler's own fallback words, the composer carrying on.
C1_FailureIsContained ==
    Recommended =>
        /\ IsRecommendation(result.recommendation)
        /\ ComposerStepFailed => IsSafeDefault(result.recommendation)
        /\ DecisionStepFailed =>
              result.recommendation.difficulty_adjustment = "maintain"
        /\ (SamplerStepFailed /\ ~ComposerStepFailed) =>
              result.recommendation.next_words =
                  <<"mama", "papa", "air", "makan", "tidur">>

\* the composer's own body failed after a "decrease" decision had been made
C1_Witness ==
    /\ Recommended /\ ComposerStepFailed
    /\ sessions # <<>> /\ WindowWellFormed /\ StrugglingOrDisengaged
    /\ IsSafeDefault(result.recommendation)

Rank(level) ==
    CASE level = "very_easy" -> 1
      [] level = "easy"      -> 2
      [] level = "medium"    -> 3
      [] level = "hard"      -> 4
      [] level = "very_hard" -> 5

\* C2: "increase" moves the level one step up and leaves VERY_HARD in place,
\* "decrease" moves it one step down and leaves VERY_EASY in place, and the
\* level stays one of the 5 fixed levels.
C2_LadderClamps ==
    /\ profile.current_level \in DifficultyLevel
    /\ Recommended =>
          /\ result.new_difficulty \in DifficultyLevel
          /\ (~result.raised /\ result.recommendation.difficulty_adjustment = "increase")
                => Rank(result.new_difficulty) =
                      IF Rank(profile.current_level) = 5 THEN 5
                      ELSE Rank(profile.current_level) + 1
          /\ (~result.raised /\ result.recommendation.difficulty_adjustment = "decrease")
                => Rank(result.new_difficulty) =
                      IF Rank(profile.current_level) = 1 THEN 1
                      ELSE Rank(profile.current_level) - 1

\* an "increase" at the top of the ladder
C2_Witness ==
    /\ Recommended /\ ~result.raised
    /\ result.recommendation.difficulty_adjustment = "increase"
    /\ profile.current_level = "very_hard"
    /\ result.new_difficulty = "very_hard"

\* a "decrease" at the bottom of the ladder
C2_WitnessBottom ==
    /\ Recommended /\ ~result.raised
    /\ result.recommendation.difficulty_adjustment = "decrease"
    /\ profile.current_level = "very_easy"
    /\ result.new_difficulty = "very_easy"

\* C7: on a "maintain" decision the level the words are selected at is the
\* profile's current level, and the call leaves that level as it was.
C7_MaintainKeepsLevel ==
    (Recommended /\ ~result.raised
        /\ result.recommendation.difficulty_adjustment = "maintain")
      => /\ result.new_difficulty = profile.current_level
         /\ profile.current_level = before.current_level

\* a "maintain" decision on a non-empty history, in the middle of the ladder
C7_Witness ==
    /\ Recommended /\ ~result.raised /\ sessions # <<>>
    /\ result.recommendation.difficulty_adjustment = "maintain"
    /\ profile.current_level = "medium"
    /\ result.new_difficulty = "medium"

\* min(base, attention_span * 0.8) for the stored profile
MinBaseScaledSpan ==
    LET scaled == Rat(4 * profile.attention_span.n, 5 * profile.attention_span.d)
        base == IF profile.age <= 6 THEN 5
                ELSE IF profile.age <= 8 THEN 10 ELSE 15
    IN  IF RLe(RInt(base), scaled) THEN RInt(base) ELSE scaled

\* C24 as claimed: the suggested session length equals
\* min(base, attention_span * 0.8) for every profile, base being 5 for
\* age <= 6, 10 for age <= 8 and 15 otherwise.
C24_SuggestedIsMinimum ==
    Recommended =>
        result.recommendation.session_duration_suggestion = MinBaseScaledSpan

\* C24 as amended: when the composer's own body does not fail, the
\* suggested session length equals min(base, attention_span * 0.8) for a
\* profile with a positive attention span and base for a profile whose
\* attention span is not positive; when it fails the length is the 10 of
\* the safe default.
C24_SuggestedLength ==
    Recommended =>
        result.recommendation.session_duration_suggestion =
            IF result.raised THEN RInt(10)
            ELSE IF RLt(RInt(0), profile.attention_span) THEN MinBaseScaledSpan
            ELSE RInt(IF profile.age <= 6 THEN 5
                      ELSE IF profile.age <= 8 THEN 10 ELSE 15)

\* a recommendation for a profile whose attention span is 0: the suggested
\* length is the base, not the minimum 0
C24_Witness ==
    /\ Recommended /\ ~result.raised
    /\ profile.attention_span = RInt(0)
    /\ MinBaseScaledSpan = RInt(0)
    /\ result.recommendation.session_duration_suggestion = RInt(15)

LevelOfRank(rank) == CHOOSE level \in DifficultyLevel : Rank(level) = rank

\* the level the reported decision leads to from the stored level: one step
\* up on "increase", one step down on "decrease", within the ladder
TargetLevel ==
    LET rank == Rank(profile.current_level)
        adjustment == result.recommendation.difficulty_adjustment
    IN  IF adjustment = "increase"
        THEN LevelOfRank(IF rank = 5 THEN 5 ELSE rank + 1)
        ELSE IF adjustment = "decrease"
        THEN LevelOfRank(IF rank = 1 THEN 1 ELSE rank - 1)
        ELSE profile.current_level

\* neither the composer nor the sampler fell back
NoFallbackFired == Recommended /\ ~result.raised /\ ~SamplerStepFailed

\* C26 as claimed: when no fallback fires, every word of next_words belongs
\* to the word table of the target level and, when the level moves, not to
\* the table of the pre-transition level.
C26_WordsOfTargetLevelOnly ==
    NoFallbackFired =>
        \A i \in 1..Len(result.recommendation.next_words) :
            /\ IsIn(result.recommendation.next_words[i],
                    word_categories(TargetLevel))
            /\ TargetLevel # profile.current_level =>
                  ~IsIn(result.recommendation.next_words[i],
                        word_categories(profile.current_level))

\* C26 as amended: when no fallback fires, next_words is a selection of
\* select_next_words at the target level and every word of it belongs to the
\* word table of the target level; a word of next_words belongs to the table
\* of the pre-transition level only when the level does not move or the two
\* tables share the word.
C26_WordsOfTargetLevel ==
    NoFallbackFired =>
        /\ result.new_difficulty = TargetLevel
        /\ result.recommendation.next_words \in
              select_next_words(profile, TargetLevel, 5)
        /\ \A i \in 1..Len(result.recommendation.next_words) :
              IsIn(result.recommendation.next_words[i],
                   word_categories(TargetLevel))

\* an "increase" from MEDIUM: the words are those of HARD, "kreativitas",
\* which MEDIUM has too, among them
C26_Witness ==
    /\ NoFallbackFired
    /\ profile.current_level = "medium"
    /\ result.recommendation.difficulty_adjustment = "increase"
    /\ TargetLevel = "hard"
    /\ IsIn("kreativitas", result.recommendation.next_words)
    /\ \E i \in 1..Len(result.recommendation.next_words) :
          ~IsIn(result.recommendation.next_words[i], word_categories("medium"))

\* the tier of the most recent session: from its mean score, or
\* supportive_comfort when it has no attempts
TierOfMostRecentSession ==
    LET last == sessions[Len(sessions)]
        total == SumSeq(last.scores)
        attempts == Len(last.scores)
    IN  IF attempts = 0 THEN "supportive_comfort"
        ELSE IF total >= 80 * attempts THEN "celebration"
        ELSE IF total >= 60 * attempts THEN "positive_reinforcement"
        ELSE IF total >= 40 * attempts THEN "gentle_motivation"
        ELSE "supportive_comfort"

\* C27 as claimed: the encouragement tier of the recommendation depends only
\* on the most recent session: mean score >= 0.8 gives celebration, >= 0.6
\* positive_reinforcement, >= 0.4 gentle_motivation, otherwise
\* supportive_comfort (a most recent session with zero attempts included),
\* and an empty history gives welcome_introduction.
C27_TierOfMostRecentSession ==
    Recommended =>
        result.recommendation.encouragement_strategy =
            IF sessions = <<>> THEN "welcome_introduction"
            ELSE TierOfMostRecentSession

\* C27 as amended: the same when the composer's own body does not fail;
\* when it fails the tier is the positive_reinforcement of the safe default,
\* whatever the most recent session.
C27_TierOfMostRecentSessionUnlessFailed ==
    Recommended =>
        result.recommendation.encouragement_strategy =
            IF result.raised THEN "positive_reinforcement"
            ELSE IF sessions = <<>> THEN "welcome_introduction"
            ELSE TierOfMostRecentSession

\* three sessions whose most recent one has a mean of 0.3, after one with a
\* mean of 1.0: supportive_comfort
C27_Witness ==
    /\ Recommended /\ ~result.raised
    /\ Len(sessions) = 3
    /\ sessions[2].scores = <<100>>
    /\ sessions[3].scores = <<30>>
    /\ result.recommendation.encouragement_strategy = "supportive_comfort"

\* C29 as claimed: across any sequence of update_user_profile and
\* generate_adaptive_recommendation calls profile.current_level keeps its
\* value, and consecutive "increase" recommendations for the stored profile
\* all target the same level, exactly one step above the stored level.
C29_IncreaseTargetsOneStepAbove ==
    [][/\ profile'.current_level = profile.current_level
       /\ (op' = "generate_adaptive_recommendation" /\ ~result'.raised
             /\ result'.recommendation.difficulty_adjustment = "increase")
          => /\ Rank(result'.new_difficulty) = Rank(profile.current_level) + 1
             /\ (op = "generate_adaptive_recommendation" /\ ~result.raised
                   /\ result.recommendation.difficulty_adjustment = "increase")
                => result'.new_difficulty = result.new_difficulty]_vars

\* C29 as amended: profile.current_level keeps its value across any
\* sequence of the two calls, and consecutive "increase" recommendations for
\* the stored profile all target the same level: one step above the stored
\* level, and VERY_HARD itself when the stored level is VERY_HARD.
C29_IncreaseIsNeverWrittenBack ==
    [][/\ profile'.current_level = profile.current_level
       /\ (op' = "generate_adaptive_recommendation" /\ ~result'.raised
             /\ result'.recommendation.difficulty_adjustment = "increase")
          => /\ Rank(result'.new_difficulty) =
                   IF Rank(profile.current_level) = 5 THEN 5
                   ELSE Rank(profile.current_level) + 1
             /\ (op = "generate_adaptive_recommendation" /\ ~result.raised
                   /\ result.recommendation.difficulty_adjustment = "increase")
                => result'.new_difficulty = result.new_difficulty]_vars

\* after every update the specification makes, an "increase" for a profile
\* stored at EASY targets MEDIUM, and the stored level is still EASY
C29_Witness ==
    /\ Recommended /\ ~result.raised
    /\ clock = MaxUpdates
    /\ profile.last_updated = MaxUpdates
    /\ result.recommendation.difficulty_adjustment = "increase"
    /\ profile.current_level = "easy"
    /\ result.new_difficulty = "medium"

\* C30: the decision does not depend on the current level: for the same
\* sessions determine_difficulty_adjustment returns at every other
\* current_difficulty the decision the recommendation reports for the
\* profile's level;
\* so at VERY_HARD the recommendation can report "increase", and at
\* VERY_EASY "decrease", while the target level equals the current level.
C30_DecisionIgnoresLevel ==
    (Recommended /\ ~result.raised) =>
        \A level \in DifficultyLevel \ {profile.current_level} :
            determine_difficulty_adjustment(sessions, level) =
                result.recommendation.difficulty_adjustment

\* at VERY_HARD the recommendation reports "increase", the decision the
\* same sessions get at VERY_EASY, and the target level is VERY_HARD
C30_Witness ==
    /\ Recommended /\ ~result.raised
    /\ profile.current_level = "very_hard"
    /\ result.recommendation.difficulty_adjustment = "increase"
    /\ determine_difficulty_adjustment(sessions, "very_easy") = "increase"
    /\ result.new_difficulty = profile.current_level

\* at VERY_EASY the recommendation reports "decrease" and the target level
\* is VERY_EASY
C30_WitnessBottom ==
    /\ Recommended /\ ~result.raised
    /\ profile.current_level = "very_easy"
    /\ result.recommendation.difficulty_adjustment = "decrease"
    /\ determine_difficulty_adjustment(sessions, "very_hard") = "decrease"
    /\ result.new_difficulty = profile.current_level

-----------------------------------------------------------------------------
(* Properties of the levels *)

\* C28: calculate_points_for_level is the inverse of
\* calculate_level_from_points: for every level L in 1..100 the level of the
\* minimum points of L is L, and for every total p >= 0 whose level L is
\* below 100, p is at least the minimum points of L and below the minimum
\* points of L + 1.
C28_PointsForLevelIsInverse ==
    /\ op = "calculate_points_for_level" =>
          result.level_of_points = result.level
    /\ (op = "calculate_level_from_points" /\ result.level < MaxLevel) =>
          /\ calculate_points_for_level(result.level) <= result.total_points
          /\ result.total_points < calculate_points_for_level(result.level + 1)

=============================================================================
